---- MODULE Spec2Model ----
(***************************************************************************)
(* Model of generate_animated_icons.py: the timing analyzer                *)
(* (parse_animation_properties, compute_cycle_ms), the sample plan and the *)
(* frame loop of render_svg_to_webp, and the batch loop of main.           *)
(*                                                                         *)
(* Python integers are unbounded and Python floats are IEEE-754 doubles.   *)
(* Integers that may exceed 31 bits are kept as little-endian sequences of *)
(* 15-bit limbs ("Big"); a float is a record [man, exp] of value           *)
(* man * 2^exp whose mantissa has at most 53 bits.                         *)
(***************************************************************************)
EXTENDS Integers, Sequences, FiniteSets, TLC

\* ------------------------------------------------------------------------
\* Python int: unbounded naturals as limb sequences
\* ------------------------------------------------------------------------

BASE == 2^15

RECURSIVE BigOf(_)
BigOf(n) == IF n = 0 THEN << >> ELSE <<n % BASE>> \o BigOf(n \div BASE)

RECURSIVE BigVal(_)
BigVal(x) == IF x = << >> THEN 0 ELSE Head(x) + BASE * BigVal(Tail(x))

RECURSIVE Trim(_)
Trim(x) ==
    IF x # << >> /\ x[Len(x)] = 0 THEN Trim(SubSeq(x, 1, Len(x) - 1)) ELSE x

RECURSIVE MulCarry(_, _, _)
MulCarry(x, k, carry) ==
    IF x = << >> THEN BigOf(carry)
    ELSE LET t == Head(x) * k + carry
         IN  <<t % BASE>> \o MulCarry(Tail(x), k, t \div BASE)

BigMulSmall(x, k) == Trim(MulCarry(x, k, 0))

BigAddSmall(x, k) == Trim(MulCarry(x, 1, k))

RECURSIVE DivLimbs(_, _)
DivLimbs(x, k) ==
    IF x = << >> THEN [q |-> << >>, r |-> 0]
    ELSE LET hi == DivLimbs(Tail(x), k)
             t  == hi.r * BASE + Head(x)
         IN  [q |-> <<t \div k>> \o hi.q, r |-> t % k]

BigDivMod(x, k) == LET d == DivLimbs(x, k) IN [q |-> Trim(d.q), r |-> d.r]

RECURSIVE BigLess(_, _)
BigLess(x, y) ==
    IF Len(x) # Len(y) THEN Len(x) < Len(y)
    ELSE IF x = << >> THEN FALSE
    ELSE IF x[Len(x)] # y[Len(y)] THEN x[Len(x)] < y[Len(y)]
    ELSE BigLess(SubSeq(x, 1, Len(x) - 1), SubSeq(y, 1, Len(y) - 1))

BigLeq(x, y) == x = y \/ BigLess(x, y)

RECURSIVE IntBits(_)
IntBits(n) == IF n = 0 THEN 0 ELSE 1 + IntBits(n \div 2)

BitLen(x) == IF x = << >> THEN 0 ELSE 15 * (Len(x) - 1) + IntBits(x[Len(x)])

RECURSIVE Zeros(_)
Zeros(n) == IF n = 0 THEN << >> ELSE <<0>> \o Zeros(n - 1)

Shl(x, s) == BigMulSmall(Zeros(s \div 15) \o x, 2^(s % 15))

Shr(x, s) ==
    IF s \div 15 >= Len(x) THEN << >>
    ELSE BigDivMod(SubSeq(x, (s \div 15) + 1, Len(x)), 2^(s % 15)).q

\* ------------------------------------------------------------------------
\* Python float: IEEE-754 binary64, round to nearest, ties to even
\* ------------------------------------------------------------------------

MANT_DIG == 53

\* The float nearest to the rational p / q (p a Big, q a positive int below
\* 2^14): the quotient is taken with at least two guard bits, the rest is
\* sticky.
Round53(p, q) ==
    IF p = << >> THEN [man |-> << >>, exp |-> 0]
    ELSE LET s      == IF BitLen(p) >= MANT_DIG + 16 THEN 0
                       ELSE MANT_DIG + 16 - BitLen(p)
             d      == BigDivMod(Shl(p, s), q)
             t      == BitLen(d.q) - MANT_DIG
             m0     == Shr(d.q, t)
             h      == Shr(d.q, t - 1)
             half   == h # << >> /\ h[1] % 2 = 1
             sticky == d.r # 0 \/ Shl(h, t - 1) # d.q
             odd    == m0 # << >> /\ m0[1] % 2 = 1
             up     == half /\ (sticky \/ odd)
         IN  [man |-> IF up THEN BigAddSmall(m0, 1) ELSE m0, exp |-> t - s]

\* float * int
FloatMul(x, k) ==
    LET r == Round53(BigMulSmall(x.man, k), 1)
    IN  [man |-> r.man, exp |-> r.exp + x.exp]

\* int(float): truncation toward zero
FloatTrunc(x) == IF x.exp >= 0 THEN Shl(x.man, x.exp) ELSE Shr(x.man, -x.exp)

\* math.ceil(float)
FloatCeil(x) ==
    IF x.exp >= 0 THEN Shl(x.man, x.exp)
    ELSE LET f == Shr(x.man, -x.exp)
         IN  IF Shl(f, -x.exp) = x.man THEN f ELSE BigAddSmall(f, 1)

\* ------------------------------------------------------------------------
\* Program constants
\* ------------------------------------------------------------------------

FPS == 20

\* 1000 / FPS is exactly 50.0
FRAME_MS == 1000 \div FPS

DEFAULT_CYCLE_MS == 2000

CAP_MS == 10000

\* ------------------------------------------------------------------------
\* Documents.  The text of a document is kept as the sequence of the timing
\* declarations the three regular expressions find in it.  A clause is
\*   kind  "animation"           an `animation:' shorthand (any number of
\*                               time-values up to the next ; or })
\*         "animation-duration"  an `animation-duration:' declaration
\*         "animate"             the dur attribute of an <animate...> element
\*   times the time-values of the clause in text order; a time-value is the
\*         decimal numeral num / 10^scale followed by the unit s or ms.
\* ------------------------------------------------------------------------

TV(n, sc, u) == [num |-> BigOf(n), scale |-> sc, unit |-> u]

Shorthand(ts) == [kind |-> "animation", times |-> ts]

DurationDecl(t) == [kind |-> "animation-duration", times |-> <<t>>]

AnimateDur(t) == [kind |-> "animate", times |-> <<t>>]

Range(s) == {s[j] : j \in DOMAIN s}

Max(a, b) == IF a >= b THEN a ELSE b

Min(a, b) == IF a <= b THEN a ELSE b

\* ------------------------------------------------------------------------
\* gcd, lcm
\* ------------------------------------------------------------------------

RECURSIVE gcd(_, _)
gcd(a, b) == IF b = 0 THEN a ELSE gcd(b, a % b)

\* variant: the product is left out
lcm_forgets_product(a, b) == a \div gcd(a, b)

lcm(a, b) == (a * b) \div gcd(a, b)

\* ------------------------------------------------------------------------
\* parse_animation_properties
\* ------------------------------------------------------------------------

\* int(float(number) * (1000 if unit == 's' else 1))
ToMs(tv) ==
    FloatTrunc(FloatMul(Round53(tv.num, 10^tv.scale),
                        IF tv.unit = "s" THEN 1000 ELSE 1))

OfKind(svg, kind) == SelectSeq(svg, LAMBDA c : c.kind = kind)

\* the first time-value of every clause of the kind that has one
FirstTimes(svg, kind) ==
    LET cs == SelectSeq(OfKind(svg, kind), LAMBDA c : Len(c.times) >= 1)
    IN  [j \in 1..Len(cs) |-> BigVal(ToMs(cs[j].times[1]))]

\* the second time-value of every shorthand that has two
SecondTimes(svg) ==
    LET cs == SelectSeq(OfKind(svg, "animation"), LAMBDA c : Len(c.times) >= 2)
    IN  [j \in 1..Len(cs) |-> ToMs(cs[j].times[2])]

parse_animation_properties(svg) ==
    [durations |-> FirstTimes(svg, "animation")
                   \o FirstTimes(svg, "animation-duration")
                   \o FirstTimes(svg, "animate"),
     delays    |-> SecondTimes(svg)]

\* ------------------------------------------------------------------------
\* compute_cycle_ms
\* ------------------------------------------------------------------------

\* set(max(1, d) for d in durations)
Floored(ds) == {Max(1, d) : d \in Range(ds)}

\* list(set): the iteration order of a set is not specified
Orders(S) == {u \in [1..Cardinality(S) -> S] : Range(u) = S}

\* variant: result = lcm(unique[0], d) in the loop, so only the last d counts
FoldLcm_from_first(result, rest) ==
    IF rest = << >> THEN result ELSE lcm(result, rest[Len(rest)])

RECURSIVE FoldLcm(_, _)
FoldLcm(result, rest) ==
    IF rest = << >> THEN result
    ELSE FoldLcm(lcm(result, Head(rest)), Tail(rest))

\* variant: the result is returned without the cap
compute_cycle_ms_uncapped(ds, unique) ==
    IF ds = << >> THEN DEFAULT_CYCLE_MS
    ELSE FoldLcm(unique[1], Tail(unique))

compute_cycle_ms(ds, unique) ==
    IF ds = << >> THEN DEFAULT_CYCLE_MS
    ELSE Min(FoldLcm(unique[1], Tail(unique)), CAP_MS)

\* ------------------------------------------------------------------------
\* The sample plan of render_svg_to_webp
\* ------------------------------------------------------------------------

RECURSIVE BigMax(_)
BigMax(s) ==
    IF Len(s) = 1 THEN s[1]
    ELSE LET m == BigMax(Tail(s)) IN IF BigLess(Head(s), m) THEN m ELSE Head(s)

\* max(delays) if delays else 0
MaxDelay(ds) == IF ds = << >> THEN << >> ELSE BigMax(ds)

\* cycle_ms * max(1, math.ceil((max_delay + 1) / cycle_ms))
StartMs(c, m) ==
    LET n == FloatCeil(Round53(BigAddSmall(m, 1), c))
    IN  BigMulSmall(IF BigLess(n, BigOf(1)) THEN BigOf(1) ELSE n, c)

\* variant: int(cycle_ms / FRAME_MS) + 1, the end of the cycle sampled too
NumFrames_inclusive(c) == BigVal(FloatTrunc(Round53(BigOf(c), FRAME_MS))) + 1

\* int(cycle_ms / FRAME_MS)
NumFrames(c) == BigVal(FloatTrunc(Round53(BigOf(c), FRAME_MS)))

\* start_ms + i * FRAME_MS: a float sum, always an integer
SampleTime(start, n) ==
    FloatTrunc(Round53(BigAddSmall(FloatTrunc(Round53(start, 1)), n * FRAME_MS), 1))

\* ------------------------------------------------------------------------
\* File names.  A name is its stem as a sequence of tokens followed by the
\* extension; "-animated" is one token, the other tokens are text in which
\* it does not occur.
\* ------------------------------------------------------------------------

MARKER == "-animated"

\* the first character of a token orders it: '-' < '.' < 'a' < 'b' < 'c'
Rank(tok) ==
    CASE tok = MARKER -> 45
      [] tok = ".svg" -> 46
      [] tok = "a"    -> 97
      [] tok = "b"    -> 98
      [] tok = "c"    -> 99

RECURSIVE LexLess(_, _)
LexLess(a, b) ==
    IF a = << >> THEN b # << >>
    ELSE IF b = << >> THEN FALSE
    ELSE IF Head(a) = Head(b) THEN LexLess(Tail(a), Tail(b))
    ELSE Rank(Head(a)) < Rank(Head(b))

PathLess(f, g) == LexLess(f.stem \o <<".svg">>, g.stem \o <<".svg">>)

\* ICONS_DIR.glob('*-animated.svg')
Glob(d) == {f \in d : f.stem # << >> /\ f.stem[Len(f.stem)] = MARKER}

RECURSIVE sorted(_)
sorted(S) ==
    IF S = {} THEN << >>
    ELSE LET f == CHOOSE x \in S : \A y \in S \ {x} : PathLess(x, y)
         IN  <<f>> \o sorted(S \ {f})

\* svg_path.stem.replace('-animated', ''): every occurrence is removed
OutputName(stem) == SelectSeq(stem, LAMBDA tok : tok # MARKER)

\* ------------------------------------------------------------------------
\* State
\* ------------------------------------------------------------------------

VARIABLES
    pc,           \* the statement that runs next
    dir,          \* the files of ICONS_DIR: [stem, content]
    svg_files,    \* main: the sorted list of inputs
    k,            \* main: how many inputs the for loop has taken
    launches,     \* how many times a browser was launched
    page,         \* whether the page of the browser is open
    closes,       \* how many times browser.close() returned
    converting,   \* the "Converting ..." lines printed, by input stem
    raised,       \* the inputs whose conversion raised
    errors,       \* the "ERROR: ..." lines printed, by input stem
    written,      \* the files saved: [name, frames], in order
    svg_content,  \* render_svg_to_webp: the text read
    durations,
    delays,
    cycle_ms,
    max_delay,
    start_ms,
    num_frames,
    i,            \* the frame loop's index
    page_time,    \* the time the page's animations were last seeked to
    frames        \* the frames captured, each by the page time it shows

mainVars == <<dir, svg_files, k, launches, page, closes, converting, raised,
              errors, written>>

planVars == <<max_delay, start_ms, num_frames>>

loopVars == <<i, page_time, frames>>

vars == <<pc, mainVars, svg_content, durations, delays, cycle_ms, planVars,
          loopVars>>

\* a page that was never seeked
NoTime == <<-1>>

MainIdle ==
    /\ dir = {} /\ svg_files = << >> /\ k = 0
    /\ launches = 0 /\ page = FALSE /\ closes = 0
    /\ converting = << >> /\ raised = << >> /\ errors = << >>
    /\ written = << >>

\* no call of render_svg_to_webp is active: its locals do not exist
NoLocals ==
    /\ svg_content = << >> /\ durations = << >> /\ delays = << >>
    /\ cycle_ms = 0
    /\ max_delay = << >> /\ start_ms = << >> /\ num_frames = 0
    /\ i = 0 /\ frames = << >>

\* render_svg_to_webp returns or raises: its locals are gone
DropLocals ==
    /\ svg_content' = << >> /\ durations' = << >> /\ delays' = << >>
    /\ cycle_ms' = 0
    /\ max_delay' = << >> /\ start_ms' = << >> /\ num_frames' = 0
    /\ i' = 0 /\ frames' = << >>

\* ------------------------------------------------------------------------
\* render_svg_to_webp, statement by statement
\* ------------------------------------------------------------------------

\* durations, delays = parse_animation_properties(svg_content)
Parse ==
    /\ pc = "parse"
    /\ LET r == parse_animation_properties(svg_content)
       IN  durations' = r.durations /\ delays' = r.delays
    /\ pc' = "cycle"
    /\ UNCHANGED <<mainVars, svg_content, cycle_ms, planVars, loopVars>>

\* cycle_ms = compute_cycle_ms(durations)
Cycle ==
    /\ pc = "cycle"
    /\ \E unique \in Orders(Floored(durations)) :
          cycle_ms' = compute_cycle_ms(durations, unique)
    /\ pc' = "plan"
    /\ UNCHANGED <<mainVars, svg_content, durations, delays, planVars, loopVars>>

\* max_delay, start_ms, num_frames
Plan ==
    /\ pc = "plan"
    /\ max_delay' = MaxDelay(delays)
    /\ start_ms' = StartMs(cycle_ms, MaxDelay(delays))
    /\ num_frames' = NumFrames(cycle_ms)
    /\ pc' = "load"
    /\ UNCHANGED <<mainVars, svg_content, durations, delays, cycle_ms, loopVars>>

\* svg_content = svg_path.read_text(encoding='utf-8')
Read ==
    /\ pc = "read"
    /\ svg_content' = svg_files[k].content
    /\ pc' = "parse"
    /\ UNCHANGED <<mainVars, durations, delays, cycle_ms, planVars, loopVars>>

\* set_content, set_viewport_size, wait_for_timeout(300); frames = []
Load ==
    /\ pc = "load"
    /\ page_time' = NoTime
    /\ frames' = << >>
    /\ i' = 0
    /\ pc' = IF 0 < num_frames THEN "seek" ELSE "save"
    /\ UNCHANGED <<mainVars, svg_content, durations, delays, cycle_ms, planVars>>

\* t_ms = start_ms + i * FRAME_MS; page.evaluate(seek every animation to t_ms)
Seek ==
    /\ pc = "seek"
    /\ page_time' = SampleTime(start_ms, i)
    /\ pc' = "shot"
    /\ UNCHANGED <<mainVars, svg_content, durations, delays, cycle_ms, planVars,
                   i, frames>>

\* wait_for_timeout(30); page.screenshot(); frames.append(img)
Shot ==
    /\ pc = "shot"
    /\ frames' = Append(frames, page_time)
    /\ i' = i + 1
    /\ pc' = IF i + 1 < num_frames THEN "seek" ELSE "save"
    /\ UNCHANGED <<mainVars, svg_content, durations, delays, cycle_ms, planVars,
                   page_time>>

\* if frames: frames[0].save(output_path, append_images=frames[1:], ...)
Save ==
    /\ pc = "save"
    /\ written' = IF frames # << >>
                  THEN Append(written, [name   |-> OutputName(svg_files[k].stem),
                                        frames |-> frames])
                  ELSE written
    /\ pc' = "loop"
    /\ DropLocals
    /\ UNCHANGED <<dir, svg_files, k, launches, page, closes, converting, raised,
                   errors, page_time>>

\* a call of render_svg_to_webp raises: reading the file, the page, the
\* screenshot or the encoder fails
Raise ==
    /\ pc \in {"read", "load", "seek", "shot", "save"}
    /\ raised' = Append(raised, svg_files[k].stem)
    /\ pc' = "except"
    /\ DropLocals
    /\ UNCHANGED <<dir, svg_files, k, launches, page, closes, converting, errors,
                   written, page_time>>

\* ------------------------------------------------------------------------
\* main
\* ------------------------------------------------------------------------

\* svg_files = sorted(ICONS_DIR.glob('*-animated.svg'))
ListFiles ==
    /\ pc = "glob"
    /\ svg_files' = sorted(Glob(dir))
    /\ pc' = "launch"
    /\ UNCHANGED <<dir, k, launches, page, closes, converting, raised, errors,
                   written, svg_content, durations, delays, cycle_ms, planVars,
                   loopVars>>

\* async_playwright() and p.chromium.launch() succeed
Launch ==
    /\ pc = "launch"
    /\ launches' = launches + 1
    /\ pc' = "new_page"
    /\ UNCHANGED <<dir, svg_files, k, page, closes, converting, raised, errors,
                   written, svg_content, durations, delays, cycle_ms, planVars,
                   loopVars>>

\* browser.new_page() succeeds
NewPage ==
    /\ pc = "new_page"
    /\ page' = TRUE
    /\ pc' = "loop"
    /\ UNCHANGED <<dir, svg_files, k, launches, closes, converting, raised,
                   errors, written, svg_content, durations, delays, cycle_ms,
                   planVars, loopVars>>

\* the launch or the new page raises: nothing catches it
SetupFails ==
    /\ pc \in {"launch", "new_page"}
    /\ pc' = "crashed"
    /\ UNCHANGED <<mainVars, svg_content, durations, delays, cycle_ms, planVars,
                   loopVars>>

\* for svg_path in svg_files: print("Converting ..."); enter the try
NextFile ==
    /\ pc = "loop"
    /\ k < Len(svg_files)
    /\ k' = k + 1
    /\ converting' = Append(converting, svg_files[k + 1].stem)
    /\ pc' = "read"
    /\ UNCHANGED <<dir, svg_files, launches, page, closes, raised, errors,
                   written, svg_content, durations, delays, cycle_ms, planVars,
                   loopVars>>

\* variant: the handler leaves the loop
Except_aborts ==
    /\ pc = "except"
    /\ errors' = Append(errors, svg_files[k].stem)
    /\ pc' = "close"
    /\ UNCHANGED <<dir, svg_files, k, launches, page, closes, converting, raised,
                   written, svg_content, durations, delays, cycle_ms, planVars,
                   loopVars>>

\* except Exception as e: print("ERROR: ...")
Except ==
    /\ pc = "except"
    /\ errors' = Append(errors, svg_files[k].stem)
    /\ pc' = "loop"
    /\ UNCHANGED <<dir, svg_files, k, launches, page, closes, converting, raised,
                   written, svg_content, durations, delays, cycle_ms, planVars,
                   loopVars>>

\* the loop is exhausted
LoopEnds ==
    /\ pc = "loop"
    /\ k = Len(svg_files)
    /\ pc' = "close"
    /\ UNCHANGED <<mainVars, svg_content, durations, delays, cycle_ms, planVars,
                   loopVars>>

\* variant: main ends without browser.close()
Close_forgotten ==
    /\ pc = "close"
    /\ pc' = "done"
    /\ UNCHANGED <<mainVars, svg_content, durations, delays, cycle_ms, planVars,
                   loopVars>>

\* await browser.close(); print("Done! ...")
Close ==
    /\ pc = "close"
    /\ closes' = closes + 1
    /\ page' = FALSE
    /\ pc' = "done"
    /\ UNCHANGED <<dir, svg_files, k, launches, converting, raised, errors,
                   written, svg_content, durations, delays, cycle_ms, planVars,
                   loopVars>>

\* ------------------------------------------------------------------------
\* Inputs
\* ------------------------------------------------------------------------

MaxFiles == 2

MaxClauses == 2

MaxDurations == 3

MaxDelays == 2

\* 100 * 2^53 ms
LateDelay == [num |-> BigMulSmall(Shl(BigOf(1), 53), 100), scale |-> 0, unit |-> "ms"]

\* animation: x 1s 2.5s  and  animation-duration: 1.5s
DocTwo == <<Shorthand(<<TV(1, 0, "s"), TV(25, 1, "s")>>), DurationDecl(TV(15, 1, "s"))>>

\* no animation
DocNone == << >>

\* animation: x 40ms
DocShort == <<Shorthand(<<TV(40, 0, "ms")>>)>>

\* <animate dur="1.03s">
DocOdd == <<AnimateDur(TV(103, 2, "s"))>>

\* animation: x 7s  and  animation: y 9s 0s
DocCap == <<Shorthand(<<TV(7, 0, "s")>>), Shorthand(<<TV(9, 0, "s"), TV(0, 0, "s")>>)>>

\* animation: x 100ms 900719925474099200ms
DocLate == <<Shorthand(<<TV(100, 0, "ms"), LateDelay>>)>>

FilePool ==
    { [stem |-> <<"a", MARKER>>,         content |-> DocTwo],
      [stem |-> <<"a", MARKER, MARKER>>, content |-> DocNone],
      [stem |-> <<"b", MARKER>>,         content |-> DocShort],
      [stem |-> <<"b", "a", MARKER>>,    content |-> DocOdd],
      [stem |-> <<"c", MARKER>>,         content |-> DocCap],
      [stem |-> <<"c", "a", MARKER>>,    content |-> DocLate],
      [stem |-> <<"c">>,                 content |-> DocTwo] }

RECURSIVE SeqsUpTo(_, _)
SeqsUpTo(S, n) ==
    IF n = 0 THEN {<< >>}
    ELSE LET shorter == SeqsUpTo(S, n - 1)
         IN  shorter \cup {Append(q, x) : q \in shorter, x \in S}

ClausePool ==
    { Shorthand(<< >>),
      Shorthand(<<TV(2, 0, "s")>>),
      Shorthand(<<TV(1001, 3, "s")>>),
      Shorthand(<<TV(5, 1, "s"), TV(300, 0, "ms")>>),
      Shorthand(<<TV(15, 1, "ms"), TV(25, 2, "s")>>),
      Shorthand(<<TV(1, 0, "s"), TV(2, 0, "s"), TV(1, 0, "s")>>),
      DurationDecl(TV(15, 1, "s")),
      DurationDecl(TV(40, 0, "ms")),
      AnimateDur(TV(3, 0, "s")),
      AnimateDur(TV(0, 0, "s")) }

DurationPool == {0, 1, 1000, 1500, 7000, 20000}

CyclePool == {1, 2, 3, 7, 49, 50, 64, 100, 1000, 3000, 9999, 10000}

DelayPool ==
    {BigOf(n) : n \in {0, 1, 49, 2499, 2500, 2999, 3000, 10000}}
    \cup {Shl(BigOf(1), 53), Shl(BigOf(1), 55), LateDelay.num}

\* ------------------------------------------------------------------------
\* Specifications
\* ------------------------------------------------------------------------

\* main on a directory of at most MaxFiles files
Init ==
    /\ pc = "glob"
    /\ dir \in {d \in SUBSET FilePool : Cardinality(d) <= MaxFiles}
    /\ svg_files = << >> /\ k = 0
    /\ launches = 0 /\ page = FALSE /\ closes = 0
    /\ converting = << >> /\ raised = << >> /\ errors = << >>
    /\ written = << >>
    /\ NoLocals /\ page_time = NoTime

Next ==
    \/ ListFiles \/ Launch \/ NewPage \/ SetupFails
    \/ NextFile \/ Read \/ Parse \/ Cycle \/ Plan \/ Load \/ Seek \/ Shot \/ Save
    \/ Raise \/ Except \/ LoopEnds \/ Close

Spec == Init /\ [][Next]_vars

\* parse_animation_properties on a document of at most MaxClauses clauses
InitParse ==
    /\ pc = "parse"
    /\ MainIdle
    /\ svg_content \in SeqsUpTo(ClausePool, MaxClauses)
    /\ durations = << >> /\ delays = << >> /\ cycle_ms = 0
    /\ max_delay = << >> /\ start_ms = << >> /\ num_frames = 0
    /\ i = 0 /\ page_time = NoTime /\ frames = << >>

SpecParse == InitParse /\ [][Parse]_vars

\* compute_cycle_ms on a list of at most MaxDurations durations
InitCycle ==
    /\ pc = "cycle"
    /\ MainIdle
    /\ durations \in SeqsUpTo(DurationPool, MaxDurations)
    /\ svg_content = << >> /\ delays = << >> /\ cycle_ms = 0
    /\ max_delay = << >> /\ start_ms = << >> /\ num_frames = 0
    /\ i = 0 /\ page_time = NoTime /\ frames = << >>

SpecCycle == InitCycle /\ [][Cycle]_vars

\* the sample plan for a cycle length and a list of at most MaxDelays delays
InitPlan ==
    /\ pc = "plan"
    /\ MainIdle
    /\ cycle_ms \in CyclePool
    /\ delays \in SeqsUpTo(DelayPool, MaxDelays)
    /\ svg_content = << >> /\ durations = << >>
    /\ max_delay = << >> /\ start_ms = << >> /\ num_frames = 0
    /\ i = 0 /\ page_time = NoTime /\ frames = << >>

SpecPlan == InitPlan /\ [][Plan]_vars

\* ------------------------------------------------------------------------
\* Properties
\* ------------------------------------------------------------------------

\* the least multiple n * m, n >= from, of m that every member of S divides,
\* if it is at most 10000, and 10000 otherwise
RECURSIVE LeastMultiple(_, _, _)
LeastMultiple(S, m, from) ==
    IF from * m > 10000 THEN 10000
    ELSE IF \A d \in S : (from * m) % d = 0 THEN from * m
    ELSE LeastMultiple(S, m, from + 1)

AtLeastOne(ds) == {IF d < 1 THEN 1 ELSE d : d \in Range(ds)}

\* min(L, 10000) for the least common multiple L of a non-empty set: every
\* common multiple is a multiple of the largest member
CappedLcm(S) == LeastMultiple(S, CHOOSE m \in S : \A d \in S : d <= m, 1)

\* C1: compute_cycle_ms returns 2000 for the empty list and otherwise
\* min(L, 10000), L the least common multiple of the values max(1, d).
C1_CycleIsCappedLcm ==
    pc = "plan" =>
        cycle_ms = IF durations = << >> THEN 2000
                   ELSE CappedLcm(AtLeastOne(durations))

C1_Witness == pc = "plan" /\ durations = <<1000, 1500>> /\ cycle_ms = 3000

IsMultiple(c, d) == IF d = 0 THEN c = 0 ELSE c % d = 0

\* C2 as stated: the cycle is positive and is a common multiple of every
\* duration of the list (0 included), or is the cap, or is the default of
\* the empty list.
C2_Original ==
    pc = "plan" =>
        /\ cycle_ms > 0
        /\ \/ \A d \in Range(durations) : IsMultiple(cycle_ms, d)
           \/ cycle_ms = 10000
           \/ durations = << >> /\ cycle_ms = 2000

\* C2 amended: the cycle is positive and is a common multiple of every
\* positive duration of the list, or is the cap, or is the default of the
\* empty list.
C2_Amended ==
    pc = "plan" =>
        /\ cycle_ms > 0
        /\ \/ \A d \in Range(durations) : d >= 1 => cycle_ms % d = 0
           \/ cycle_ms = 10000
           \/ durations = << >> /\ cycle_ms = 2000

C2_Witness == pc = "plan" /\ durations = <<0, 1500, 1000>> /\ cycle_ms = 3000

\* C3: every list with the same set of values, folded in any order of the
\* deduplicated set, gives the cycle length of this list.
C3_SetSemantics ==
    pc = "plan" =>
        \A other \in SeqsUpTo(DurationPool, MaxDurations) :
            Range(other) = Range(durations) =>
                \A u \in Orders(Floored(other)) :
                    compute_cycle_ms(other, u) = cycle_ms

C3_Witness ==
    pc = "plan" /\ durations = <<1500, 7000, 1500>> /\ cycle_ms = 10000

\* C4 as stated: the start offset is a positive multiple of the cycle,
\* exceeds max_delay, and is the smallest such multiple.
C4_StartOffset ==
    pc = "load" =>
        /\ start_ms # << >>
        /\ BigDivMod(start_ms, cycle_ms).r = 0
        /\ BigLess(max_delay, start_ms)
        /\ BigLeq(start_ms, BigAddSmall(max_delay, cycle_ms))

Planned == pc \in {"load", "seek", "shot", "save"}

CanProceed ==
    \/ pc \in {"parse", "plan", "seek"}
    \/ ENABLED (\/ ListFiles \/ Launch \/ NewPage \/ NextFile \/ Read \/ Cycle
                \/ Load \/ Shot \/ Save \/ Except \/ LoopEnds \/ Close)

NoRepeats(q) == \A a, b \in DOMAIN q : a # b => q[a] # q[b]

\* C6: main attempts every input exactly once in lexical order, prints one
\* error per input whose conversion raised, and ends normally: once the
\* page is open no state but the final one is without a next step.
C6_BatchSurvivesFailures ==
    /\ pc = "done" =>
          /\ Range(converting) = {f.stem : f \in Glob(dir)}
          /\ NoRepeats(converting)
          /\ \A a, b \in DOMAIN converting :
                a < b => LexLess(converting[a] \o <<".svg">>,
                                 converting[b] \o <<".svg">>)
          /\ errors = raised
          /\ NoRepeats(raised)
    /\ pc = "crashed" => ~page
    /\ pc \notin {"done", "crashed"} => CanProceed

C6_Witness ==
    /\ pc = "done" /\ Len(converting) = 2
    /\ raised = <<converting[1]>> /\ errors = raised
    /\ Len(written) = 1

\* C7 as stated: every input whose conversion did not raise has its output
\* written exactly once, and no output is written twice.
C7_OneOutputPerInput ==
    /\ pc = "done" =>
          \A f \in Glob(dir) :
              f.stem \notin Range(raised) =>
                  Cardinality({j \in DOMAIN written :
                                  written[j].name = OutputName(f.stem)}) = 1
    /\ \A a, b \in DOMAIN written : a # b => written[a].name # written[b].name

\* C8: the browser and its page are acquired once, before the first input,
\* and released once, after the last; a conversion runs only in between;
\* every run that opened the page goes on until it has closed the browser.
C8_SurfaceLifecycle ==
    /\ launches <= 1 /\ closes <= 1
    /\ k > 0 => launches = 1
    /\ pc \in {"read", "parse", "cycle", "plan", "load", "seek", "shot", "save",
               "except"} => page /\ closes = 0
    /\ closes = 1 => ~page /\ k = Len(svg_files) /\ pc = "done"
    /\ pc = "done" => launches = 1 /\ closes = 1
    /\ page => CanProceed

C8_Witness ==
    pc = "done" /\ launches = 1 /\ closes = 1 /\ Len(raised) = 2 /\ written = << >>

InOrder(fs, start, cycle, delay) ==
    /\ Len(fs) <= 200
    /\ \A j \in DOMAIN fs :
          /\ fs[j] = BigAddSmall(start, 50 * (j - 1))
          /\ BigLess(delay, fs[j])
          /\ BigLess(fs[j], BigAddSmall(start, cycle))
          /\ j > 1 => BigLess(fs[j - 1], fs[j])

\* C9 as stated: frame i is captured after the seek to start_offset + 50 i
\* and before the next seek; the sample times increase strictly, lie in
\* [start_offset, start_offset + cycle_length), exceed max_delay, and reach
\* the encoder in that order, at most 200 of them.
C9_SampleOrder ==
    /\ pc \in {"seek", "shot", "save"} =>
          /\ Len(frames) = i
          /\ InOrder(frames, start_ms, cycle_ms, max_delay)
    /\ pc = "shot" => page_time = BigAddSmall(start_ms, 50 * i)
    /\ pc = "save" => Len(frames) = num_frames
    /\ \A j \in DOMAIN written :
          /\ Len(written[j].frames) <= 200
          /\ \A n \in 2..Len(written[j].frames) :
                written[j].frames[n] = BigAddSmall(written[j].frames[n - 1], 50)

\* the exact value of a time-value in ms, truncated to an integer
ExactMs(tv) ==
    (BigVal(tv.num) * (IF tv.unit = "s" THEN 1000 ELSE 1)) \div 10^tv.scale

Nth(svg, kind, n) ==
    LET cs == SelectSeq(svg, LAMBDA c : c.kind = kind /\ Len(c.times) >= n)
    IN  [j \in 1..Len(cs) |-> ExactMs(cs[j].times[n])]

\* C10 as stated: a shorthand adds its first time-value as a duration and
\* its second, if any, as a delay; the other declarations add one duration
\* each; seconds are multiplied by 1000, milliseconds are kept.
C10_Extraction ==
    pc = "cycle" =>
        /\ durations = Nth(svg_content, "animation", 1)
                       \o Nth(svg_content, "animation-duration", 1)
                       \o Nth(svg_content, "animate", 1)
        /\ [j \in DOMAIN delays |-> BigVal(delays[j])]
              = Nth(svg_content, "animation", 2)

====
